---- MODULE Spec2Model ----
(***************************************************************************)
(* Model of api_sync_generator/parser.py: the SchemaParser that turns an   *)
(* OpenAPI document into {interfaces, endpoints}.                          *)
(*                                                                         *)
(* Representation.  A Python dict with optional keys is a record whose     *)
(* fields are options: <<>> is "key absent", <<v>> is "key present with    *)
(* value v".  An insertion-ordered dict is a sequence of entries with      *)
(* distinct keys.  Text that the parser inspects character by character    *)
(* (paths, verbs, operation ids, tags, descriptions) is a sequence of      *)
(* one-character strings; text it only copies or concatenates (names,      *)
(* type expressions) is a TLA+ string.                                     *)
(***************************************************************************)
EXTENDS Integers, Sequences, FiniteSets, TLC

VARIABLES schema, config, hashseed, parsers, held, returned, raised

vars == <<schema, config, hashseed, parsers, held, returned, raised>>

(***************************************************************************)
(* Python built-ins used by the parser.                                    *)
(***************************************************************************)
LowerChars == <<"a","b","c","d","e","f","g","h","i","j","k","l","m",
                "n","o","p","q","r","s","t","u","v","w","x","y","z">>

UpperChars == <<"A","B","C","D","E","F","G","H","I","J","K","L","M",
                "N","O","P","Q","R","S","T","U","V","W","X","Y","Z">>

DigitChars == <<"0","1","2","3","4","5","6","7","8","9">>

Range(s) == { s[i] : i \in DOMAIN s }

LowerSet == Range(LowerChars)

UpperSet == Range(UpperChars)

DigitSet == Range(DigitChars)

\* the tables of str.upper() and str.lower()
UpperOf == LowerChars[1] :> UpperChars[1] @@ LowerChars[2] :> UpperChars[2]
        @@ LowerChars[3] :> UpperChars[3] @@ LowerChars[4] :> UpperChars[4]
        @@ LowerChars[5] :> UpperChars[5] @@ LowerChars[6] :> UpperChars[6]
        @@ LowerChars[7] :> UpperChars[7] @@ LowerChars[8] :> UpperChars[8]
        @@ LowerChars[9] :> UpperChars[9] @@ LowerChars[10] :> UpperChars[10]
        @@ LowerChars[11] :> UpperChars[11] @@ LowerChars[12] :> UpperChars[12]
        @@ LowerChars[13] :> UpperChars[13] @@ LowerChars[14] :> UpperChars[14]
        @@ LowerChars[15] :> UpperChars[15] @@ LowerChars[16] :> UpperChars[16]
        @@ LowerChars[17] :> UpperChars[17] @@ LowerChars[18] :> UpperChars[18]
        @@ LowerChars[19] :> UpperChars[19] @@ LowerChars[20] :> UpperChars[20]
        @@ LowerChars[21] :> UpperChars[21] @@ LowerChars[22] :> UpperChars[22]
        @@ LowerChars[23] :> UpperChars[23] @@ LowerChars[24] :> UpperChars[24]
        @@ LowerChars[25] :> UpperChars[25] @@ LowerChars[26] :> UpperChars[26]

LowerOf == UpperChars[1] :> LowerChars[1] @@ UpperChars[2] :> LowerChars[2]
        @@ UpperChars[3] :> LowerChars[3] @@ UpperChars[4] :> LowerChars[4]
        @@ UpperChars[5] :> LowerChars[5] @@ UpperChars[6] :> LowerChars[6]
        @@ UpperChars[7] :> LowerChars[7] @@ UpperChars[8] :> LowerChars[8]
        @@ UpperChars[9] :> LowerChars[9] @@ UpperChars[10] :> LowerChars[10]
        @@ UpperChars[11] :> LowerChars[11] @@ UpperChars[12] :> LowerChars[12]
        @@ UpperChars[13] :> LowerChars[13] @@ UpperChars[14] :> LowerChars[14]
        @@ UpperChars[15] :> LowerChars[15] @@ UpperChars[16] :> LowerChars[16]
        @@ UpperChars[17] :> LowerChars[17] @@ UpperChars[18] :> LowerChars[18]
        @@ UpperChars[19] :> LowerChars[19] @@ UpperChars[20] :> LowerChars[20]
        @@ UpperChars[21] :> LowerChars[21] @@ UpperChars[22] :> LowerChars[22]
        @@ UpperChars[23] :> LowerChars[23] @@ UpperChars[24] :> LowerChars[24]
        @@ UpperChars[25] :> LowerChars[25] @@ UpperChars[26] :> LowerChars[26]

\* str.upper() / str.lower() on one character
CharUpper(c) == IF c \in LowerSet THEN UpperOf[c] ELSE c

CharLower(c) == IF c \in UpperSet THEN LowerOf[c] ELSE c

StrUpper(s) == [i \in DOMAIN s |-> CharUpper(s[i])]

StrLower(s) == [i \in DOMAIN s |-> CharLower(s[i])]

\* str.capitalize(): first character upper-cased, every other one lower-cased
StrCapitalize(s) == [i \in DOMAIN s |-> IF i = 1 THEN CharUpper(s[i]) ELSE CharLower(s[i])]

\* str.replace(old, new) for single characters
StrReplace(s, old, new) == [i \in DOMAIN s |-> IF s[i] = old THEN new ELSE s[i]]

\* the character class [a-zA-Z0-9_] of the regular expression
WordChars == LowerSet \cup UpperSet \cup DigitSet \cup {"_"}

IsWordChar(c) == c \in WordChars

\* re.sub(r'[^a-zA-Z0-9_]', '', s)
ReSubNonWord(s) == SelectSeq(s, IsWordChar)

\* str.split(sep) for a one-character separator: always at least one part
RECURSIVE StrSplit(_, _)
StrSplit(s, sep) ==
    IF \A i \in DOMAIN s : s[i] # sep
    THEN <<s>>
    ELSE LET k == CHOOSE i \in DOMAIN s :
                      s[i] = sep /\ \A j \in 1..(i - 1) : s[j] # sep
         IN  <<SubSeq(s, 1, k - 1)>> \o StrSplit(SubSeq(s, k + 1, Len(s)), sep)

\* ''.join(parts)
RECURSIVE StrJoin(_)
StrJoin(parts) == IF parts = <<>> THEN <<>> ELSE Head(parts) \o StrJoin(Tail(parts))

\* sub in s, for strings
IsSubstring(sub, s) ==
    \E i \in 0..(Len(s) - Len(sub)) : SubSeq(s, i + 1, i + Len(sub)) = sub

\* x in lst, for lists
InList(x, lst) == \E i \in DOMAIN lst : lst[i] = x

\* str(v) for an int
RECURSIVE NatToStr(_)
NatToStr(n) ==
    IF n < 10 THEN DigitChars[n + 1]
    ELSE NatToStr(n \div 10) \o DigitChars[(n % 10) + 1]

IntToStr(v) == IF v < 0 THEN "-" \o NatToStr(0 - v) ELSE NatToStr(v)

\* d.get(key, default) on an option
Get(opt, default) == IF opt = <<>> THEN default ELSE opt[1]

\* a or b, for two results of d.get(key) on strings (None is <<>>)
PyOr(a, b) == IF a # <<>> /\ a[1] # "" THEN a ELSE b

\* d[key] = value on an insertion-ordered dict kept as a sequence of
\* [key, value] entries: an existing key keeps its position
DictSet(d, k, v) ==
    IF \E i \in DOMAIN d : d[i].key = k
    THEN [i \in DOMAIN d |-> IF d[i].key = k THEN [key |-> k, value |-> v] ELSE d[i]]
    ELSE Append(d, [key |-> k, value |-> v])

(***************************************************************************)
(* set(types) and its iteration order (parser.py line 79).  CPython keeps  *)
(* a small set in a table of SetTableSize slots and iterates it in slot    *)
(* order.  A string's home slot is hash(s) reduced to the table; hash(s)   *)
(* is keyed by the per-process hash seed.  StrHash keeps what the order    *)
(* depends on: a value per string that changes with the seed.  A collision *)
(* moves on to slot 5*i + 1 (the perturbation is 0 for small hashes).      *)
(***************************************************************************)
SetTableSize == 8

StrHash(s, seed) == (Len(s) * (2 * seed + 1) + seed) % SetTableSize

RECURSIVE SetProbe(_, _, _)
SetProbe(table, s, i) ==
    IF table[i] = <<>> \/ table[i] = <<s>> THEN i
    ELSE SetProbe(table, s, (5 * i + 1) % SetTableSize)

SetAdd(table, s, seed) ==
    [table EXCEPT ![SetProbe(table, s, StrHash(s, seed))] = <<s>>]

RECURSIVE PySetOf(_, _)
PySetOf(lst, seed) ==
    IF lst = <<>> THEN [i \in 0..(SetTableSize - 1) |-> <<>>]
    ELSE SetAdd(PySetOf(SubSeq(lst, 1, Len(lst) - 1), seed), lst[Len(lst)], seed)

RECURSIVE SetSlotsFrom(_, _)
SetSlotsFrom(table, i) ==
    IF i = SetTableSize THEN <<>> ELSE table[i] \o SetSlotsFrom(table, i + 1)

\* the elements of set(lst) in the order a for-loop or join sees them
PySetIter(lst, seed) == SetSlotsFrom(PySetOf(lst, seed), 0)

\* sep.join(parts) for TLA+ strings
RECURSIVE JoinWith(_, _)
JoinWith(parts, sep) ==
    IF parts = <<>> THEN ""
    ELSE IF Len(parts) = 1 THEN parts[1]
    ELSE parts[1] \o sep \o JoinWith(Tail(parts), sep)

(***************************************************************************)
(* SchemaParser._translate_type                                            *)
(*                                                                         *)
(* A schema node is a record of options: ref (the "$ref" string, kept as   *)
(* its list of "/"-separated segments), type, format, items, properties,   *)
(* additionalProperties, anyOf, and the annotation keys the component      *)
(* parser copies.  Where JSON Schema allows a boolean in place of a schema *)
(* (additionalProperties: false), the value is the record [bool |-> b].    *)
(***************************************************************************)
\* {} : a node with no key at all
EmptyNode ==
    [ref |-> <<>>, type |-> <<>>, format |-> <<>>, items |-> <<>>,
     properties |-> <<>>, additionalProperties |-> <<>>, anyOf |-> <<>>,
     description |-> <<>>, title |-> <<>>, minLength |-> <<>>, maxLength |-> <<>>,
     pattern |-> <<>>, minimum |-> <<>>, maximum |-> <<>>]

\* True / False where a schema dict is expected
BoolSchema(b) == [bool |-> b]

\* isinstance(value, dict)
IsDict(value) == "bool" \notin DOMAIN value

\* the first segment instead of the last
RefName_First(ref) == ref[1]

\* ref.split("/")[-1]
RefName(ref) == ref[Len(ref)]

\* f"{item_type}[]"
ArrayType(item_type) == item_type \o "[]"

\* f"{{ [key: string]: {val_type} }}"
MapType(val_type) == "{ [key: string]: " \o val_type \o " }"

\* every branch kept, "null" ones too
NonNullBranches_All(branches) == branches

\* [t for t in schema_prop["anyOf"] if t.get("type") != "null"]
NonNullBranches(branches) == SelectSeq(branches, LAMBDA t : t.type # <<"null">>)

\* types[0] if len(types) == 1 else " | ".join(set(types))
UnionType(types, seed) ==
    IF Len(types) = 1 THEN types[1] ELSE JoinWith(PySetIter(types, seed), " | ")

\* the type expression _translate_type returns, for a node it does not
\* raise on
RECURSIVE TranslateType(_, _)
TranslateType(schema_prop, seed) ==
    IF schema_prop.ref # <<>>
    THEN RefName(schema_prop.ref[1])
    ELSE LET prop_type == Get(schema_prop.type, "any") IN
         IF prop_type = "string" THEN "string"
         ELSE IF prop_type = "integer" \/ prop_type = "number" THEN "number"
         ELSE IF prop_type = "boolean" THEN "boolean"
         ELSE IF prop_type = "array"
              THEN ArrayType(TranslateType(Get(schema_prop.items, EmptyNode), seed))
         ELSE IF prop_type = "object"
              THEN IF schema_prop.additionalProperties # <<>>
                   THEN MapType(TranslateType(schema_prop.additionalProperties[1], seed))
                   ELSE "any"
         ELSE IF schema_prop.anyOf # <<>>
              THEN LET branches == NonNullBranches(schema_prop.anyOf[1])
                       types == [i \in DOMAIN branches |->
                                     TranslateType(branches[i], seed)]
                   IN  UnionType(types, seed)
         ELSE "any"

\* whether _translate_type raises on the node: "$ref" in schema_prop is a
\* TypeError on a bool, and so is t.get("type") an AttributeError on a bool
\* branch; the exception of a nested call propagates
RECURSIVE TranslateRaises(_)
TranslateRaises(schema_prop) ==
    IF ~IsDict(schema_prop) THEN TRUE
    ELSE IF schema_prop.ref # <<>> THEN FALSE
    ELSE LET prop_type == Get(schema_prop.type, "any") IN
         IF prop_type \in {"string", "integer", "number", "boolean"} THEN FALSE
         ELSE IF prop_type = "array"
              THEN TranslateRaises(Get(schema_prop.items, EmptyNode))
         ELSE IF prop_type = "object"
              THEN /\ schema_prop.additionalProperties # <<>>
                   /\ TranslateRaises(schema_prop.additionalProperties[1])
         ELSE IF schema_prop.anyOf # <<>>
              THEN \E i \in DOMAIN schema_prop.anyOf[1] :
                       LET t == schema_prop.anyOf[1][i]
                       IN  ~IsDict(t) \/ (t.type # <<"null">> /\ TranslateRaises(t))
         ELSE FALSE

(***************************************************************************)
(* SchemaParser.parse_components                                           *)
(*                                                                         *)
(* An enum member is [isStr, s, n]: the string s when isStr, the int n     *)
(* otherwise.                                                              *)
(***************************************************************************)
\* str(v) for every member, quotes forgotten
EnumLiteral_Unquoted(v) == IF v.isStr THEN v.s ELSE IntToStr(v.n)

\* f"'{v}'" if isinstance(v, str) else str(v)
EnumLiteral(v) == IF v.isStr THEN "'" \o v.s \o "'" ELSE IntToStr(v.n)

\* optional = prop_name not in required
IsOptionalProp(prop_name, spec) == ~InList(prop_name, Get(spec.required, <<>>))

ParsedPropertyOf(prop_name, prop_spec, spec, seed) ==
    [ts_type     |-> TranslateType(prop_spec, seed),
     description |-> PyOr(prop_spec.description, prop_spec.title),
     min_length  |-> prop_spec.minLength,
     max_length  |-> prop_spec.maxLength,
     pattern     |-> prop_spec.pattern,
     minimum     |-> prop_spec.minimum,
     maximum     |-> prop_spec.maximum,
     optional    |-> IsOptionalProp(prop_name, spec)]

\* the key the property is stored under
PropertyKey(prop_name, spec) ==
    IF IsOptionalProp(prop_name, spec) THEN prop_name \o "?" ELSE prop_name

\* the loop over spec["properties"], from entry i on, filling the local dict
RECURSIVE ParseProperties(_, _, _, _, _)
ParseProperties(props, i, spec, properties, seed) ==
    IF i > Len(props) THEN properties
    ELSE ParseProperties(props, i + 1, spec,
             DictSet(properties,
                     PropertyKey(props[i].key, spec),
                     ParsedPropertyOf(props[i].key, props[i].value, spec, seed)),
             seed)

ParsedInterfaceOf(name, spec, seed) ==
    IF spec.enum # <<>>
    THEN [name        |-> name,
          properties  |-> <<>>,
          is_enum     |-> TRUE,
          enum_values |-> [i \in DOMAIN spec.enum[1] |-> EnumLiteral(spec.enum[1][i])],
          description |-> PyOr(spec.description, spec.title)]
    ELSE [name        |-> name,
          properties  |-> ParseProperties(Get(spec.properties, <<>>), 1, spec, <<>>, seed),
          is_enum     |-> FALSE,
          enum_values |-> <<>>,
          description |-> PyOr(spec.description, spec.title)]

\* schemas = self.schema.get("components", {}).get("schemas", {})
ComponentSchemas(doc) ==
    IF doc.components = <<>> THEN <<>> ELSE Get(doc.components[1].schemas, <<>>)

\* the loop over schemas.items(), from entry i on, updating self.interfaces
RECURSIVE ParseComponentsFrom(_, _, _, _)
ParseComponentsFrom(schemas, i, interfaces, seed) ==
    IF i > Len(schemas) THEN interfaces
    ELSE ParseComponentsFrom(schemas, i + 1,
             DictSet(interfaces, schemas[i].key,
                     ParsedInterfaceOf(schemas[i].key, schemas[i].value, seed)),
             seed)

parse_components(self, seed) ==
    [self EXCEPT !.interfaces =
        ParseComponentsFrom(ComponentSchemas(self.schema), 1, self.interfaces, seed)]

\* the entries a loop completes before the first one it raises on, bad
\* being the indexes of the entries it would raise on
BeforeFirst(entries, bad) ==
    IF bad = {} THEN entries
    ELSE SubSeq(entries, 1, (CHOOSE i \in bad : \A j \in bad : i <= j) - 1)

\* the loop body raises on this schemas entry: a property it translates does
DefinitionRaises(entry) ==
    /\ entry.value.enum = <<>>
    /\ \E i \in DOMAIN Get(entry.value.properties, <<>>) :
           TranslateRaises(Get(entry.value.properties, <<>>)[i].value)

ComponentsRaise(self) ==
    \E i \in DOMAIN ComponentSchemas(self.schema) :
        DefinitionRaises(ComponentSchemas(self.schema)[i])

\* self when parse_components ends in the exception: the interfaces of the
\* definitions before the raising one are stored
parse_components_raising(self, seed) ==
    [self EXCEPT !.interfaces =
        LET schemas == ComponentSchemas(self.schema)
        IN  ParseComponentsFrom(
                BeforeFirst(schemas, { i \in DOMAIN schemas : DefinitionRaises(schemas[i]) }),
                1, self.interfaces, seed)]

(***************************************************************************)
(* SchemaParser.parse_paths                                                *)
(***************************************************************************)
\* the list with "head" added
SupportedVerbs_WithHead ==
    { <<"g","e","t">>, <<"p","o","s","t">>, <<"p","u","t">>,
      <<"p","a","t","c","h">>, <<"d","e","l","e","t","e">>, <<"h","e","a","d">> }

SupportedVerbs ==
    { <<"g","e","t">>, <<"p","o","s","t">>, <<"p","u","t">>,
      <<"p","a","t","c","h">>, <<"d","e","l","e","t","e">> }

\* method.lower() in ["get", "post", "put", "patch", "delete"]
IsSupportedVerb(method) == StrLower(method) \in SupportedVerbs

\* the tag filter alone, without the description filter
IsExcluded_TagsOnly(operation, exclude_tags) ==
    LET tags == Get(operation.tags, <<>>)
    IN  \E i \in DOMAIN tags : InList(tags[i], exclude_tags)

\* the two filters: a tag in exclude_tags, or an exclude_tags entry inside
\* the description
IsExcluded(operation, exclude_tags) ==
    LET tags == Get(operation.tags, <<>>)
        desc == Get(operation.description, <<>>)
    IN  \/ \E i \in DOMAIN tags : InList(tags[i], exclude_tags)
        \/ \E i \in DOMAIN exclude_tags : IsSubstring(exclude_tags[i], desc)

\* f"{method}_{path.replace('/', '_')}"
SynthesizedId(method, path) == method \o <<"_">> \o StrReplace(path, "/", "_")

\* operation.get("operationId") or <synthesized>
RawOperationId_OrSynthesized(operation, method, path) ==
    IF operation.operationId # <<>> /\ operation.operationId[1] # <<>>
    THEN operation.operationId[1]
    ELSE SynthesizedId(method, path)

\* operation.get("operationId", <synthesized>)
RawOperationId(operation, method, path) ==
    Get(operation.operationId, SynthesizedId(method, path))

\* p.capitalize() for the parts after the first
CapitalizePart(p) == StrCapitalize(p)

\* parts[0] + ''.join(p.capitalize() for p in parts[1:])
CamelCase(operation_id) ==
    LET parts == StrSplit(operation_id, "_")
    IN  parts[1] \o StrJoin([i \in 1..(Len(parts) - 1) |-> CapitalizePart(parts[i + 1])])

OperationId(operation, method, path) ==
    CamelCase(ReSubNonWord(RawOperationId(operation, method, path)))

ParsedParamOf(name, param, seed) ==
    [name        |-> name,
     type        |-> TranslateType(Get(param.schema, EmptyNode), seed),
     description |-> param.description]

\* the loop over operation["parameters"] that fills url_params
RECURSIVE UrlParams(_, _)
UrlParams(params, seed) ==
    IF params = <<>> THEN <<>>
    ELSE LET param == Head(params)
             rest  == UrlParams(Tail(params), seed)
         IN  IF param.in = <<"path">>
             THEN <<ParsedParamOf(param.name, param, seed)>> \o rest
             ELSE rest

\* "?" appended only when the parameter has no required key
QueryName_IfKeyMissing(param) ==
    IF param.required = <<>> THEN param.name \o "?" ELSE param.name

\* qname: the name, with "?" appended when not required
QueryName(param) ==
    IF ~Get(param.required, FALSE) THEN param.name \o "?" ELSE param.name

\* the same loop, for query_params
RECURSIVE QueryParams(_, _)
QueryParams(params, seed) ==
    IF params = <<>> THEN <<>>
    ELSE LET param == Head(params)
             rest  == QueryParams(Tail(params), seed)
         IN  IF param.in = <<"query">>
             THEN <<ParsedParamOf(QueryName(param), param, seed)>> \o rest
             ELSE rest

\* {} for a media-type dict
EmptyMedia == [schema |-> <<>>, example |-> <<>>]

\* operation.get("requestBody", {}).get("content", {})
\*          .get("application/json", {}).get("schema", {})
RequestSchema(operation) ==
    IF operation.requestBody = <<>> THEN EmptyNode
    ELSE IF operation.requestBody[1].content = <<>> THEN EmptyNode
    ELSE Get(Get(operation.requestBody[1].content[1].json, EmptyMedia).schema, EmptyNode)

\* req_body_type = self._translate_type(req_body), without the if
RequestBodyType_Always(operation, seed) ==
    <<TranslateType(RequestSchema(operation), seed)>>

\* req_body_type: set only when the schema dict is truthy (non-empty)
RequestBodyType(operation, seed) ==
    LET req_body == RequestSchema(operation)
    IN  IF req_body # EmptyNode THEN <<TranslateType(req_body, seed)>> ELSE <<>>

\* operation.get("responses", {}).get("200", {}).get("content", {})
\*          .get("application/json", {})
ResponseContent(operation) ==
    IF operation.responses = <<>> THEN EmptyMedia
    ELSE IF operation.responses[1].r200 = <<>> THEN EmptyMedia
    ELSE IF operation.responses[1].r200[1].content = <<>> THEN EmptyMedia
    ELSE Get(operation.responses[1].r200[1].content[1].json, EmptyMedia)

ResponseBodyType(operation, seed) ==
    LET res_content == ResponseContent(operation)
    IN  IF res_content # EmptyMedia
        THEN <<TranslateType(Get(res_content.schema, EmptyNode), seed)>>
        ELSE <<>>

IsArrayResponse(operation) ==
    LET res_content == ResponseContent(operation)
    IN  /\ res_content # EmptyMedia
        /\ Get(Get(res_content.schema, EmptyNode).type, "") = "array"

ParsedEndpointOf(path, method, operation, seed) ==
    [path               |-> path,
     method             |-> StrUpper(method),
     operation_id       |-> OperationId(operation, method, path),
     summary            |-> operation.summary,
     description        |-> operation.description,
     url_params         |-> UrlParams(Get(operation.parameters, <<>>), seed),
     query_params       |-> QueryParams(Get(operation.parameters, <<>>), seed),
     request_body_type  |-> RequestBodyType(operation, seed),
     response_body_type |-> ResponseBodyType(operation, seed),
     is_array_response  |-> IsArrayResponse(operation)]

\* self.endpoints.insert(0, ...)
AppendEndpoint_Front(endpoints, e) == <<e>> \o endpoints

\* self.endpoints.append(...)
AppendEndpoint(endpoints, e) == Append(endpoints, e)

\* the inner loop over methods.items(), from entry j on
RECURSIVE ParseMethodsFrom(_, _, _, _, _, _)
ParseMethodsFrom(path, methods, j, endpoints, exclude_tags, seed) ==
    IF j > Len(methods) THEN endpoints
    ELSE LET method    == methods[j].key
             operation == methods[j].value
         IN  IF ~IsSupportedVerb(method) \/ IsExcluded(operation, exclude_tags)
             THEN ParseMethodsFrom(path, methods, j + 1, endpoints, exclude_tags, seed)
             ELSE ParseMethodsFrom(path, methods, j + 1,
                      AppendEndpoint(endpoints,
                                     ParsedEndpointOf(path, method, operation, seed)),
                      exclude_tags, seed)

\* the outer loop over paths.items(), from entry i on
RECURSIVE ParsePathsFrom(_, _, _, _, _)
ParsePathsFrom(paths, i, endpoints, exclude_tags, seed) ==
    IF i > Len(paths) THEN endpoints
    ELSE ParsePathsFrom(paths, i + 1,
             ParseMethodsFrom(paths[i].key, paths[i].value, 1, endpoints,
                              exclude_tags, seed),
             exclude_tags, seed)

parse_paths(self, seed) ==
    [self EXCEPT !.endpoints =
        ParsePathsFrom(Get(self.schema.paths, <<>>), 1, self.endpoints,
                       self.config.exclude_tags, seed)]

\* a _translate_type call of the loop body raises: on a parameter's schema,
\* on a truthy request schema, or on the schema of truthy 200 JSON content
OperationRaises(operation) ==
    \/ \E i \in DOMAIN Get(operation.parameters, <<>>) :
           TranslateRaises(Get(Get(operation.parameters, <<>>)[i].schema, EmptyNode))
    \/ /\ RequestSchema(operation) # EmptyNode
       /\ TranslateRaises(RequestSchema(operation))
    \/ /\ ResponseContent(operation) # EmptyMedia
       /\ TranslateRaises(Get(ResponseContent(operation).schema, EmptyNode))

\* the inner loop reaches the translation of this methods entry and raises
MethodRaises(entry, exclude_tags) ==
    /\ IsSupportedVerb(entry.key)
    /\ ~IsExcluded(entry.value, exclude_tags)
    /\ OperationRaises(entry.value)

PathRaises(entry, exclude_tags) ==
    \E j \in DOMAIN entry.value : MethodRaises(entry.value[j], exclude_tags)

PathsRaise(self) ==
    \E i \in DOMAIN Get(self.schema.paths, <<>>) :
        PathRaises(Get(self.schema.paths, <<>>)[i], self.config.exclude_tags)

\* self when parse_paths ends in the exception: the endpoints of the
\* operations before the raising one are appended
parse_paths_raising(self, seed) ==
    LET paths  == Get(self.schema.paths, <<>>)
        excl   == self.config.exclude_tags
        before == BeforeFirst(paths, { i \in DOMAIN paths : PathRaises(paths[i], excl) })
        item   == paths[Len(before) + 1]
    IN  [self EXCEPT !.endpoints =
            ParseMethodsFrom(item.key,
                BeforeFirst(item.value,
                    { j \in DOMAIN item.value : MethodRaises(item.value[j], excl) }),
                1,
                ParsePathsFrom(before, 1, self.endpoints, excl, seed),
                excl, seed)]

(***************************************************************************)
(* The parser object and its entry points.                                 *)
(*                                                                         *)
(* parsers is the heap of SchemaParser instances.  The dict that parse()   *)
(* returns holds self.interfaces and self.endpoints themselves, not        *)
(* copies: an entry of returned names the instance whose containers the    *)
(* caller now holds, and records what they contained at the return.  held  *)
(* is the set of instances the caller constructed itself and can call      *)
(* again; the instance parse_schema builds is local to it.  raised counts  *)
(* the calls that ended in an exception and returned nothing.              *)
(***************************************************************************)
\* interfaces and endpoints as class attributes, shared by all instances
SchemaParser__init__Shared(raw_schema, cfg) ==
    [schema |-> raw_schema, config |-> cfg,
     interfaces |-> IF parsers = <<>> THEN <<>> ELSE parsers[Len(parsers)].interfaces,
     endpoints  |-> IF parsers = <<>> THEN <<>> ELSE parsers[Len(parsers)].endpoints]

SchemaParser__init__(raw_schema, cfg) ==
    [schema |-> raw_schema, config |-> cfg, interfaces |-> <<>>, endpoints |-> <<>>]

\* self.parse_components(); self.parse_paths()
parse(self, seed) == parse_paths(parse_components(self, seed), seed)

\* parse() ends in an exception instead of returning
ParseRaises(self) == ComponentsRaise(self) \/ PathsRaise(self)

\* self when it does
parse_raising(self, seed) ==
    IF ComponentsRaise(self) THEN parse_components_raising(self, seed)
    ELSE parse_paths_raising(parse_components(self, seed), seed)

\* the value a caller reads now through the IR that call r returned
HeldIR(r) ==
    [interfaces |-> parsers[returned[r].parser].interfaces,
     endpoints  |-> parsers[returned[r].parser].endpoints]

\* the value the IR had when call r returned
ReturnedIR(r) ==
    [interfaces |-> returned[r].interfaces, endpoints |-> returned[r].endpoints]

MaxCalls == 2

\* parser = SchemaParser(schema, config): the caller keeps one instance
NewParser ==
    /\ held = {}
    /\ parsers' = Append(parsers, SchemaParser__init__(schema, config))
    /\ held' = held \cup {Len(parsers) + 1}
    /\ UNCHANGED <<schema, config, hashseed, returned, raised>>

\* parser.parse() on an instance the caller holds
Parse(p) ==
    /\ Len(returned) + raised < MaxCalls
    /\ IF ParseRaises(parsers[p])
       THEN /\ parsers' = [parsers EXCEPT ![p] = parse_raising(parsers[p], hashseed)]
            /\ raised' = raised + 1
            /\ UNCHANGED returned
       ELSE LET self == parse(parsers[p], hashseed)
            IN  /\ parsers' = [parsers EXCEPT ![p] = self]
                /\ returned' = Append(returned,
                       [parser |-> p,
                        first |-> ~\E r \in DOMAIN returned : returned[r].parser = p,
                        interfaces |-> self.interfaces, endpoints |-> self.endpoints])
                /\ UNCHANGED raised
    /\ UNCHANGED <<schema, config, hashseed, held>>

\* parse_schema(schema, config)
ParseSchema ==
    /\ Len(returned) + raised < MaxCalls
    /\ IF ParseRaises(SchemaParser__init__(schema, config))
       THEN /\ parsers' = Append(parsers,
                     parse_raising(SchemaParser__init__(schema, config), hashseed))
            /\ raised' = raised + 1
            /\ UNCHANGED returned
       ELSE LET self == parse(SchemaParser__init__(schema, config), hashseed)
            IN  /\ parsers' = Append(parsers, self)
                /\ returned' = Append(returned,
                       [parser |-> Len(parsers) + 1, first |-> TRUE,
                        interfaces |-> self.interfaces, endpoints |-> self.endpoints])
                /\ UNCHANGED raised
    /\ UNCHANGED <<schema, config, hashseed, held>>

Next ==
    \/ NewParser
    \/ \E p \in held : Parse(p)
    \/ ParseSchema

(***************************************************************************)
(* Input documents.                                                        *)
(***************************************************************************)
NumHashSeeds == 2

HashSeeds == 0..(NumHashSeeds - 1)

\* sequences over S of length at most n
SeqsUpTo(S, n) == UNION { [1..k -> S] : k \in 0..n }

\* the insertion-ordered dicts with at most n entries, keys from Keys and
\* values from Values: a sequence of distinct keys, and a value for each
DictsUpTo(Keys, Values, n) ==
    UNION { { [i \in 1..k |-> [key |-> ks[i], value |-> vs[i]]] :
                ks \in { q \in [1..k -> Keys] : \A i, j \in 1..k : q[i] = q[j] => i = j },
                vs \in [1..k -> Values] } :
            k \in 0..n }

EmptyOperation ==
    [tags |-> <<>>, description |-> <<>>, summary |-> <<>>, operationId |-> <<>>,
     parameters |-> <<>>, requestBody |-> <<>>, responses |-> <<>>]

Document(components, paths) == [components |-> components, paths |-> paths]

Config(exclude_tags) == [exclude_tags |-> exclude_tags]

InitWith(Documents, Configs, Seeds) ==
    /\ schema \in Documents
    /\ config \in Configs
    /\ hashseed \in Seeds
    /\ parsers = <<>>
    /\ held = {}
    /\ returned = <<>>
    /\ raised = 0

(***************************************************************************)
(* Documents that vary the shape of the path map: which verbs sit under    *)
(* which paths, in which order, and which operations the filters drop.     *)
(***************************************************************************)
MaxPaths == 2

MaxMethods == 2

TagInternal == <<"@","i">>

TagUsers == <<"u">>

PathNames == { <<"/","a">>, <<"/","b">> }

VerbGet == <<"g","e","t">>

VerbPost == <<"P","O","S","T">>

VerbHead == <<"h","e","a","d">>

OpPlain == EmptyOperation

OpTagged == [EmptyOperation EXCEPT !.tags = <<<<TagUsers, TagInternal>>>>]

OpDescribed ==
    [EmptyOperation EXCEPT !.tags = <<<<TagUsers>>>>,
                           !.description = <<<<"x","@","i","y">>>>]

\* the operations that may sit under each key of a path item
OperationsUnder(verb) ==
    IF verb = VerbGet THEN {OpPlain, OpTagged}
    ELSE IF verb = VerbPost THEN {OpDescribed}
    ELSE {OpPlain}

MethodMaps ==
    { m \in DictsUpTo({VerbGet, VerbPost, VerbHead},
                      {OpPlain, OpTagged, OpDescribed}, MaxMethods) :
        \A i \in DOMAIN m : m[i].value \in OperationsUnder(m[i].key) }

ShapeDocuments ==
    { Document(<<>>, <<>>) } \cup
    { Document(<<>>, <<paths>>) : paths \in DictsUpTo(PathNames, MethodMaps, MaxPaths) }

ShapeConfigs == { Config(<<>>), Config(<<TagInternal>>) }

Init == InitWith(ShapeDocuments, ShapeConfigs, {0})

Spec == Init /\ [][Next]_vars

(***************************************************************************)
(* Documents that vary the operation id: one operation, with every         *)
(* declared id over IdAlphabet up to MaxIdLen, or with no declared id      *)
(* under every path over PathAlphabet up to MaxPathLen.                    *)
(***************************************************************************)
MaxIdLen == 4

MaxPathLen == 2

IdAlphabet == { "a", "B", "1", "_", "-" }

PathAlphabet == { "/", "u", "S", "{" }

PathUsers == <<"/","u","s","e","r","s">>

VerbPostLower == <<"p","o","s","t">>

SingleOperation(path, method, operation) ==
    Document(<<>>, <<<<[key |-> path,
                        value |-> <<[key |-> method, value |-> operation]>>]>>>>)

OperationIdDocuments ==
    { SingleOperation(PathUsers, VerbGet, [EmptyOperation EXCEPT !.operationId = <<id>>]) :
        id \in SeqsUpTo(IdAlphabet, MaxIdLen) }
    \cup
    { SingleOperation(path, method, EmptyOperation) :
        path \in SeqsUpTo(PathAlphabet, MaxPathLen) \cup {PathUsers},
        method \in {VerbGet, VerbPost, VerbPostLower} }

InitOperationId == InitWith(OperationIdDocuments, {Config(<<TagInternal>>)}, {0})

SpecOperationId == InitOperationId /\ [][Next]_vars

(***************************************************************************)
(* Documents that vary the named definitions: enumerations over            *)
(* EnumMembers up to MaxEnum members, and objects with up to MaxProps      *)
(* properties and different required lists.  A property may be named like  *)
(* another one followed by "?".                                            *)
(***************************************************************************)
MaxSchemas == 2

MaxEnum == 2

MaxProps == 2

TypeNode(t) == [EmptyNode EXCEPT !.type = <<t>>]

RefNode(name) == [EmptyNode EXCEPT !.ref = <<<<"#", "components", "schemas", name>>>>]

StrMember(s) == [isStr |-> TRUE, s |-> s, n |-> 0]

IntMember(n) == [isStr |-> FALSE, s |-> "", n |-> n]

EnumMembers == { StrMember("a"), IntMember(0 - 12) }

EmptyDefinition ==
    [description |-> <<>>, title |-> <<>>, enum |-> <<>>, properties |-> <<>>,
     required |-> <<>>]

\* the schema of each property name
PropertyNode(name) ==
    IF name = "id" THEN TypeNode("integer")
    ELSE [TypeNode("string") EXCEPT !.title = <<"Id">>, !.maxLength = <<8>>]

PropertyMaps ==
    { m \in DictsUpTo({"id", "id?"}, {PropertyNode("id"), PropertyNode("id?")}, MaxProps) :
        \A i \in DOMAIN m : m[i].value = PropertyNode(m[i].key) }

RequiredLists == { <<>>, <<<<"id">>>>, <<<<"zip", "id?">>>> }

Definitions ==
    { [EmptyDefinition EXCEPT !.enum = <<members>>] :
        members \in SeqsUpTo(EnumMembers, MaxEnum) }
    \cup
    { [EmptyDefinition EXCEPT !.enum = <<<<StrMember("a")>>>>,
                              !.properties = <<<<[key |-> "id",
                                                  value |-> TypeNode("integer")]>>>>],
      [EmptyDefinition EXCEPT !.title = <<"Empty">>] }
    \cup
    { [EmptyDefinition EXCEPT !.properties = <<props>>, !.required = required] :
        props \in PropertyMaps, required \in RequiredLists }

ComponentDocuments ==
    { Document(<<>>, <<>>), Document(<<[schemas |-> <<>>]>>, <<>>) } \cup
    { Document(<<[schemas |-> <<schemas>>]>>, <<>>) :
        schemas \in DictsUpTo({"User", "Role"}, Definitions, MaxSchemas) }

InitComponents == InitWith(ComponentDocuments, {Config(<<TagInternal>>)}, {0})

SpecComponents == InitComponents /\ [][Next]_vars

(***************************************************************************)
(* Documents that vary the 200 response of one operation: every level of   *)
(* responses / "200" / content / application/json present or absent, and   *)
(* every schema node nested up to MaxDepth deep in arrays and maps, unions   *)
(* of up to MaxBranches branches.                                          *)
(***************************************************************************)
MaxDepth == 1

MaxBranches == 2

\* references: to a definition the document may declare, to one it never
\* declares, without any "/", and next to other keys
ReferenceNodes ==
    { RefNode("User"), RefNode("Ghost"),
      [EmptyNode EXCEPT !.ref = <<<<"User">>>>],
      [RefNode("User") EXCEPT !.type = <<"array">>],
      [RefNode("User") EXCEPT !.type = <<"string">>,
                              !.anyOf = <<<<TypeNode("integer"), TypeNode("boolean")>>>>] }

\* an object that also declares properties and a union
ObjectWithExtras ==
    [TypeNode("object") EXCEPT
        !.properties = <<<<[key |-> "id", value |-> TypeNode("integer")]>>>>,
        !.anyOf = <<<<TypeNode("string"), TypeNode("null")>>>>]

LeafNodes ==
    { EmptyNode, TypeNode("string"), TypeNode("integer"), TypeNode("null"),
      TypeNode("object"), TypeNode("array"), TypeNode("file"),
      ObjectWithExtras,
      [ObjectWithExtras EXCEPT !.additionalProperties = <<TypeNode("integer")>>],
      [TypeNode("object") EXCEPT !.additionalProperties = <<BoolSchema(FALSE)>>],
      [TypeNode("null") EXCEPT !.anyOf = <<<<TypeNode("null"), TypeNode("string")>>>>] }
    \cup ReferenceNodes

BranchNodes == { TypeNode("string"), TypeNode("integer"), TypeNode("null"), RefNode("User") }

UnionNodes ==
    { [EmptyNode EXCEPT !.anyOf = <<branches>>] :
        branches \in SeqsUpTo(BranchNodes, MaxBranches) }

RECURSIVE NodesOfDepth(_)
NodesOfDepth(d) ==
    IF d = 0 THEN LeafNodes \cup UnionNodes
    ELSE LET inner == NodesOfDepth(d - 1)
         IN  inner
             \cup { [TypeNode("array") EXCEPT !.items = <<n>>] : n \in inner }
             \cup { [TypeNode("object") EXCEPT !.additionalProperties = <<n>>] : n \in inner }

SchemaNodes == NodesOfDepth(MaxDepth)

MediaWith(node) == [schema |-> <<node>>, example |-> <<>>]

ResponsesWith(json) == <<[r200 |-> <<[content |-> <<[json |-> json]>>]>>]>>

ResponseVariants ==
    { <<>>,
      <<[r200 |-> <<>>]>>,
      <<[r200 |-> <<[content |-> <<>>]>>]>>,
      ResponsesWith(<<>>),
      ResponsesWith(<<EmptyMedia>>),
      ResponsesWith(<<[schema |-> <<>>, example |-> <<"x">>]>>) }
    \cup { ResponsesWith(<<MediaWith(node)>>) : node \in SchemaNodes }

\* components that declare User
UserComponents == <<[schemas |-> <<<<[key |-> "User", value |-> EmptyDefinition]>>>>]>>

ResponseDocuments ==
    { SingleOperation(PathUsers, VerbGet, [EmptyOperation EXCEPT !.responses = res]) :
        res \in ResponseVariants }
    \cup
    { [SingleOperation(PathUsers, VerbGet,
          [EmptyOperation EXCEPT !.responses = ResponsesWith(<<MediaWith(node)>>)])
         EXCEPT !.components = UserComponents] :
        node \in ReferenceNodes }

InitResponses == InitWith(ResponseDocuments, {Config(<<TagInternal>>)}, HashSeeds)

SpecResponses == InitResponses /\ [][Next]_vars

(***************************************************************************)
(* Documents that vary the keys under one path: the five verbs in lower,   *)
(* upper and mixed case, another HTTP verb, and path-item keys that hold   *)
(* no operation (a parameter list, a summary string); and documents        *)
(* without components, without schemas, without paths.                     *)
(***************************************************************************)
VerbPutMixed == <<"P","u","t">>

VerbPatchUpper == <<"P","A","T","C","H">>

VerbDelete == <<"d","e","l","e","t","e">>

KeyParameters == <<"p","a","r","a","m","e","t","e","r","s">>

KeySummary == <<"s","u","m","m","a","r","y">>

PathItemKeys ==
    { VerbGet, VerbPost, VerbPutMixed, VerbPatchUpper, VerbDelete, VerbHead,
      KeyParameters, KeySummary }

\* the value a path item holds under each key: an operation under a verb, a
\* list under "parameters", a string under "summary"
PathItemValue(key) ==
    IF key = KeyParameters THEN [list |-> <<"id">>]
    ELSE IF key = KeySummary THEN [text |-> "Users"]
    ELSE IF key = VerbPost THEN [EmptyOperation EXCEPT !.summary = <<"Create">>]
    ELSE EmptyOperation

PathItems ==
    UNION { { [i \in 1..k |-> [key |-> ks[i], value |-> PathItemValue(ks[i])]] :
                ks \in { q \in [1..k -> PathItemKeys] :
                           \A i, j \in 1..k : q[i] = q[j] => i = j } } :
            k \in 0..MaxMethods }

VerbDocuments ==
    { Document(<<>>, <<>>), Document(<<[schemas |-> <<>>]>>, <<>>),
      Document(<<>>, <<<<>>>>) }
    \cup { Document(components, <<<<[key |-> PathUsers, value |-> item]>>>>) :
             components \in { <<>>, <<[schemas |-> <<>>]>> }, item \in PathItems }

InitVerbs == InitWith(VerbDocuments, {Config(<<TagInternal>>)}, {0})

SpecVerbs == InitVerbs /\ [][Next]_vars

(***************************************************************************)
(* Documents that vary the parameters of one operation: up to MaxParams    *)
(* parameters, each in path, query, header or cookie, with required        *)
(* absent, true or false.  A parameter marked required has an integer      *)
(* schema, the others have none.                                           *)
(***************************************************************************)
MaxParams == 2

Param(name, location, required) ==
    [name |-> name, in |-> <<location>>, required |-> required,
     schema |-> IF required = <<TRUE>> THEN <<TypeNode("integer")>> ELSE <<>>,
     description |-> <<>>]

ParamPool ==
    { Param(nl[1], nl[2], required) :
        nl \in { <<"id", "path">>, <<"q", "query">>, <<"h", "header">>,
                 <<"c", "cookie">> },
        required \in { <<>>, <<TRUE>>, <<FALSE>> } }

ParameterDocuments ==
    { SingleOperation(PathUsers, VerbGet, EmptyOperation) } \cup
    { SingleOperation(PathUsers, VerbGet, [EmptyOperation EXCEPT !.parameters = <<params>>]) :
        params \in SeqsUpTo(ParamPool, MaxParams) }

InitParameters == InitWith(ParameterDocuments, {Config(<<TagInternal>>)}, {0})

SpecParameters == InitParameters /\ [][Next]_vars

(***************************************************************************)
(* Documents that vary the request body of one operation: every level of   *)
(* requestBody / content / application/json / schema present or absent,    *)
(* and every schema node that is not nested.                               *)
(***************************************************************************)
RequestBodyWith(json) == <<[content |-> <<[json |-> json]>>]>>

RequestVariants ==
    { <<>>,
      <<[content |-> <<>>]>>,
      RequestBodyWith(<<>>),
      RequestBodyWith(<<EmptyMedia>>),
      RequestBodyWith(<<[schema |-> <<>>, example |-> <<"x">>]>>) }
    \cup { RequestBodyWith(<<MediaWith(node)>>) : node \in NodesOfDepth(0) }

RequestDocuments ==
    { SingleOperation(PathUsers, VerbPostLower, [EmptyOperation EXCEPT !.requestBody = req]) :
        req \in RequestVariants }

InitRequests == InitWith(RequestDocuments, {Config(<<TagInternal>>)}, HashSeeds)

SpecRequests == InitRequests /\ [][Next]_vars

(***************************************************************************)
(* Properties.                                                             *)
(*                                                                         *)
(* What the properties expect is written from the documented behaviour,    *)
(* over the input document, and compared with what the parser returned.    *)
(***************************************************************************)
\* the operations a document declares, in document order
RECURSIVE DeclaredOperations(_)
DeclaredOperations(paths) ==
    IF paths = <<>> THEN <<>>
    ELSE LET item == Head(paths)
         IN  [j \in 1..Len(item.value) |->
                 [path |-> item.key, method |-> item.value[j].key,
                  operation |-> item.value[j].value]]
             \o DeclaredOperations(Tail(paths))

Declared == DeclaredOperations(Get(schema.paths, <<>>))

UpperVerbs ==
    { <<"G","E","T">>, <<"P","O","S","T">>, <<"P","U","T">>,
      <<"P","A","T","C","H">>, <<"D","E","L","E","T","E">> }

UnderSupportedVerb(o) == StrUpper(o.method) \in UpperVerbs

\* a tag in the exclusion set, or an exclusion entry inside the description
MatchesExclusion(o) ==
    LET excl == Range(config.exclude_tags)
    IN  \/ o.operation.tags # <<>> /\ Range(o.operation.tags[1]) \cap excl # {}
        \/ /\ o.operation.description # <<>>
           /\ \E x \in excl : \E a, b \in 0..Len(o.operation.description[1]) :
                 a <= b /\ SubSeq(o.operation.description[1], a + 1, b) = x

\* endpoint e has the path, method and operation id of declared operation o
DerivedFrom(e, o) ==
    /\ e.path = o.path
    /\ e.method = StrUpper(o.method)
    /\ e.operation_id = OperationId(o.operation, o.method, o.path)

Kept(o) == UnderSupportedVerb(o) /\ ~MatchesExclusion(o)

\* C1: an operation with a tag in the exclusion set, or whose description
\* contains an exclusion entry, has no endpoint in any returned IR: every
\* endpoint carrying its path, method and operation id belongs to an
\* operation that is not excluded.
C1_ExcludedOperationAbsent ==
    \A r \in DOMAIN returned : \A i \in DOMAIN Declared :
        MatchesExclusion(Declared[i]) =>
            \A k \in DOMAIN returned[r].endpoints :
                DerivedFrom(returned[r].endpoints[k], Declared[i]) =>
                    \E j \in DOMAIN Declared :
                        /\ Kept(Declared[j])
                        /\ DerivedFrom(returned[r].endpoints[k], Declared[j])

\* a returned IR with endpoints, from a document in which one supported
\* operation is excluded by a tag and another by its description
C1_Witness ==
    /\ returned # <<>>
    /\ returned[1].endpoints # <<>>
    /\ \E i, j \in DOMAIN Declared :
          /\ UnderSupportedVerb(Declared[i]) /\ UnderSupportedVerb(Declared[j])
          /\ MatchesExclusion(Declared[i]) /\ MatchesExclusion(Declared[j])
          /\ Declared[i].operation.description = <<>>
          /\ Declared[j].operation.description # <<>>

\* the <<path, method>> pairs of a sequence of endpoints
PathMethod(endpoints) ==
    [k \in 1..Len(endpoints) |-> <<endpoints[k].path, endpoints[k].method>>]

\* C7: after one parse the endpoints are, in document order, exactly the
\* operations under a supported verb that are not excluded, one each.
C7_EndpointsInDocumentOrder ==
    \A r \in DOMAIN returned :
        returned[r].first =>
            PathMethod(returned[r].endpoints) =
                PathMethod(SelectSeq(
                    [i \in 1..Len(Declared) |->
                        [path |-> Declared[i].path,
                         method |-> StrUpper(Declared[i].method),
                         kept |-> Kept(Declared[i])]],
                    LAMBDA o : o.kept))

\* an IR with endpoints of two paths, from a document that also holds an
\* excluded operation and an unsupported verb
C7_Witness ==
    /\ returned # <<>>
    /\ returned[1].first
    /\ \E k, l \in DOMAIN returned[1].endpoints :
          k < l /\ returned[1].endpoints[k].path # returned[1].endpoints[l].path
    /\ \E i \in DOMAIN Declared : ~UnderSupportedVerb(Declared[i])
    /\ \E i \in DOMAIN Declared : MatchesExclusion(Declared[i])

C3_ReturnedIRNeverChanges ==
    \A r \in DOMAIN returned : HeldIR(r) = ReturnedIR(r)

\* the kept operations, in document order: the k-th endpoint of a first
\* parse comes from the k-th of them
KeptOperations == SelectSeq(Declared, Kept)

Letters == LowerSet \cup UpperSet

\* the documented normalisation, character by character: drop what is not
\* a letter, digit or underscore; then drop the underscores, upper-casing
\* the character that follows one and leaving every other as it is
LettersDigitsUnderscore == Letters \cup DigitSet \cup {"_"}

Sanitized(raw) == SelectSeq(raw, LAMBDA c : c \in LettersDigitsUnderscore)

RECURSIVE CamelFrom(_, _)
CamelFrom(s, i) ==
    IF i > Len(s) THEN <<>>
    ELSE IF s[i] = "_" THEN CamelFrom(s, i + 1)
    ELSE <<IF i > 1 /\ s[i - 1] = "_" THEN CharUpper(s[i]) ELSE s[i]>> \o CamelFrom(s, i + 1)

Normalised(raw) == CamelFrom(Sanitized(raw), 1)

\* C4: the operation id of an endpoint is the documented normalisation of
\* the declared id: later segments get their first character upper-cased
\* and keep the rest.
C4_OperationIdNormalised ==
    \A r \in DOMAIN returned : returned[r].first =>
        \A k \in DOMAIN returned[r].endpoints :
            KeptOperations[k].operation.operationId # <<>> =>
                returned[r].endpoints[k].operation_id =
                    Normalised(KeptOperations[k].operation.operationId[1])

\* "{verb}_{path}" with every "/" of the path replaced by "_"
VerbUnderscorePath(o) ==
    o.method \o <<"_">> \o [i \in 1..Len(o.path) |-> IF o.path[i] = "/" THEN "_" ELSE o.path[i]]

\* the id the parser gives an operation that declares id
IdOfDeclared(id) ==
    OperationId([EmptyOperation EXCEPT !.operationId = <<id>>], VerbGet, PathUsers)

\* C5: with no declared id the operation id is that of the declared id
\* "{verb}_{path}", slashes replaced by underscores (post /users gives
\* postUsers); a declared id, even an empty one, is the one normalised.
C5_SynthesizedOperationId ==
    \A r \in DOMAIN returned : returned[r].first =>
        \A k \in DOMAIN returned[r].endpoints :
            LET o == KeptOperations[k]
                e == returned[r].endpoints[k]
            IN  /\ o.operation.operationId = <<>> =>
                      e.operation_id = IdOfDeclared(VerbUnderscorePath(o))
                /\ o.operation.operationId = <<>> /\ o.path = PathUsers
                      /\ o.method = VerbPostLower =>
                      e.operation_id = <<"p","o","s","t","U","s","e","r","s">>
                /\ o.operation.operationId # <<>> =>
                      e.operation_id = CamelCase(ReSubNonWord(o.operation.operationId[1]))

\* post /users without a declared id has been parsed
C5_Witness ==
    /\ returned # <<>>
    /\ schema = SingleOperation(PathUsers, VerbPostLower, EmptyOperation)
    /\ Len(returned[1].endpoints) = 1

\* C6: every endpoint's operation id is non-empty and made of letters,
\* digits and underscores only.
C6_OperationIdNonEmptyWord ==
    \A r \in DOMAIN returned : \A k \in DOMAIN returned[r].endpoints :
        /\ returned[r].endpoints[k].operation_id # <<>>
        /\ \A i \in DOMAIN returned[r].endpoints[k].operation_id :
              returned[r].endpoints[k].operation_id[i]
                  \in LettersDigitsUnderscore

\* the named definitions of the document, in source order
DeclaredSchemas ==
    IF schema.components = <<>> THEN <<>> ELSE Get(schema.components[1].schemas, <<>>)

\* the entries of an ordered map stored under key k
EntriesAt(map, k) == { i \in DOMAIN map : map[i].key = k }

\* C8: a declared property of a non-enumeration definition is stored with
\* optional = FALSE when its name is in the required list and with
\* optional = TRUE when it is not (no required list: every one optional).
C8_OptionalIffNotRequired ==
    \A r \in DOMAIN returned : \A i \in DOMAIN DeclaredSchemas :
        LET def      == DeclaredSchemas[i].value
            props    == Get(def.properties, <<>>)
            required == IF def.required = <<>> THEN {} ELSE Range(def.required[1])
        IN  def.enum = <<>> =>
              \A q \in EntriesAt(returned[r].interfaces, DeclaredSchemas[i].key) :
                \A j \in DOMAIN props :
                    LET name == props[j].key
                        stored == returned[r].interfaces[q].value.properties
                    IN  \E n \in EntriesAt(stored,
                                 IF name \in required THEN name ELSE name \o "?") :
                            stored[n].value.optional = (name \notin required)

\* the text of the int literals used as enumeration members
IntLiteralText(n) ==
    CASE n = 0 - 12 -> "-12" [] n = 0 -> "0" [] n = 7 -> "7"

\* C9: a definition with an enumeration of N members gives an interface
\* with is_enum, no properties and N enum values in source order, strings
\* quoted and other members as their literal text; any other definition
\* gives is_enum = FALSE and no enum values.
C9_EnumInterfaces ==
    \A r \in DOMAIN returned : \A i \in DOMAIN DeclaredSchemas :
        LET def == DeclaredSchemas[i].value
            at  == EntriesAt(returned[r].interfaces, DeclaredSchemas[i].key)
        IN  /\ at # {}
            /\ \A q \in at :
                 LET iface == returned[r].interfaces[q].value
                 IN  IF def.enum # <<>>
                     THEN /\ iface.is_enum
                          /\ iface.properties = <<>>
                          /\ Len(iface.enum_values) = Len(def.enum[1])
                          /\ \A m \in DOMAIN def.enum[1] :
                                iface.enum_values[m] =
                                    IF def.enum[1][m].isStr
                                    THEN "'" \o def.enum[1][m].s \o "'"
                                    ELSE IntLiteralText(def.enum[1][m].n)
                     ELSE ~iface.is_enum /\ iface.enum_values = <<>>

\* an IR with an enumeration of a string and a negative int, in that order,
\* next to a definition that is no enumeration
C9_Witness ==
    /\ returned # <<>>
    /\ \E q \in DOMAIN returned[1].interfaces :
          returned[1].interfaces[q].value.enum_values = <<"'a'", "-12">>
    /\ \E q \in DOMAIN returned[1].interfaces :
          ~returned[1].interfaces[q].value.is_enum

\* the application/json entry of the 200 response, when the document has one
Json200(operation) ==
    IF operation.responses = <<>> THEN <<>>
    ELSE IF operation.responses[1].r200 = <<>> THEN <<>>
    ELSE IF operation.responses[1].r200[1].content = <<>> THEN <<>>
    ELSE operation.responses[1].r200[1].content[1].json

\* C10: with a 200 JSON schema, is_array_response says whether its type is
\* array and response_body_type is its translated type, which then ends
\* with the array suffix whenever is_array_response is true; without 200
\* JSON content the type is unset and the flag false.
C10_ArrayResponse ==
    \A r \in DOMAIN returned : returned[r].first =>
        \A k \in DOMAIN returned[r].endpoints :
            LET json == Json200(KeptOperations[k].operation)
                e    == returned[r].endpoints[k]
            IN  /\ json # <<>> /\ json[1].schema # <<>> =>
                     LET node == json[1].schema[1]
                     IN  /\ e.is_array_response = (node.type = <<"array">>)
                         /\ e.response_body_type = <<TranslateType(node, hashseed)>>
                         /\ e.is_array_response =>
                               e.response_body_type =
                                 <<TranslateType(Get(node.items, EmptyNode), hashseed)
                                     \o "[]">>
                /\ json = <<>> \/ json = <<EmptyMedia>> =>
                     e.response_body_type = <<>> /\ ~e.is_array_response

\* the schema node of an operation's 200 JSON content, as an option
ResponseNode(operation) ==
    IF Json200(operation) = <<>> THEN <<>> ELSE Json200(operation)[1].schema

\* the IR of a parser that runs parse_paths before parse_components
PathsFirstIR ==
    LET self == parse_components(
                    parse_paths(SchemaParser__init__(schema, config), hashseed),
                    hashseed)
    IN  [interfaces |-> self.interfaces, endpoints |-> self.endpoints]

\* the names the document defines under components/schemas
DefinedNames == { ComponentSchemas(schema)[i].key : i \in DOMAIN ComponentSchemas(schema) }

\* C11: a response schema that is a reference, or an array of references,
\* translates to the last "/"-separated segment of the reference, whatever
\* other keys the node has and whether or not the document defines that
\* name; and the IR is the one a parser running parse_paths before
\* parse_components returns.
C11_ReferenceIsBareName ==
    \A r \in DOMAIN returned : returned[r].first =>
        /\ \A k \in DOMAIN returned[r].endpoints :
              LET node == ResponseNode(KeptOperations[k].operation)
                  e    == returned[r].endpoints[k]
              IN  /\ node # <<>> /\ node[1].ref # <<>> =>
                        e.response_body_type =
                            <<node[1].ref[1][Len(node[1].ref[1])]>>
                  /\ /\ node # <<>> /\ node[1].ref = <<>> /\ node[1].type = <<"array">>
                     /\ node[1].items # <<>> /\ node[1].items[1].ref # <<>>
                     => e.response_body_type =
                            <<node[1].items[1].ref[1][Len(node[1].items[1].ref[1])] \o "[]">>
        /\ ReturnedIR(r) = PathsFirstIR

\* an IR whose endpoint has a response schema referring to a name the
\* document does not define, next to a type key, translated to that name
C11_Witness ==
    \E r \in DOMAIN returned : \E k \in DOMAIN returned[r].endpoints :
        LET node == ResponseNode(KeptOperations[k].operation)
        IN  /\ returned[r].first
            /\ node # <<>> /\ node[1].ref # <<>> /\ node[1].type # <<>>
            /\ node[1].ref[1][Len(node[1].ref[1])] \notin DefinedNames
            /\ returned[r].endpoints[k].response_body_type = <<"User">>

RecognisedTypes == { "string", "integer", "number", "boolean", "array", "object" }

\* a node the union rule applies to: no reference, no recognised type, and
\* a list of alternative branches
IsUnionNode(node) ==
    /\ node.ref = <<>>
    /\ node.type = <<>> \/ node.type[1] \notin RecognisedTypes
    /\ node.anyOf # <<>>

\* the branches of a union node whose type is not "null"
NonNull(node) == SelectSeq(node.anyOf[1], LAMBDA b : b.type # <<"null">>)

BranchOrders(branches) ==
    { [i \in DOMAIN branches |-> branches[f[i]]] : f \in Permutations(DOMAIN branches) }

\* the sequences that list every element of the set S once
Orderings(S) ==
    { q \in [1..Cardinality(S) -> S] : \A i, j \in DOMAIN q : q[i] = q[j] => i = j }

\* C13: a union node with more than one non-null branch translates to the
\* distinct translated types of its branches joined by " | ", and to the
\* same string under every hash seed of the run and every order of the
\* branches.
C13_UnionDeterministic ==
    \A r \in DOMAIN returned : returned[r].first =>
        \A k \in DOMAIN returned[r].endpoints :
            LET node == ResponseNode(KeptOperations[k].operation)
                e    == returned[r].endpoints[k]
            IN  node # <<>> /\ IsUnionNode(node[1]) /\ Len(NonNull(node[1])) > 1 =>
                    /\ \E q \in Orderings({ TranslateType(NonNull(node[1])[i], hashseed) :
                                               i \in DOMAIN NonNull(node[1]) }) :
                           e.response_body_type = <<JoinWith(q, " | ")>>
                    /\ \A seed \in HashSeeds : \A branches \in BranchOrders(node[1].anyOf[1]) :
                           e.response_body_type =
                               <<TranslateType([node[1] EXCEPT !.anyOf = <<branches>>], seed)>>

\* a node of none of the recognised shapes
IsUnrecognised(node) ==
    /\ node.ref = <<>>
    /\ node.type = <<>> \/ node.type[1] \notin RecognisedTypes
    /\ node.anyOf = <<>>

\* C14: no call ends in an exception, every declared response schema gets a
\* type expression, and a node of no recognised shape gets "any".
C14_TranslatorTotal ==
    /\ raised = 0
    /\ \A r \in DOMAIN returned : returned[r].first =>
          \A k \in DOMAIN returned[r].endpoints :
              LET node == ResponseNode(KeptOperations[k].operation)
                  e    == returned[r].endpoints[k]
              IN  node # <<>> =>
                    /\ e.response_body_type # <<>>
                    /\ IsUnrecognised(node[1]) => e.response_body_type = <<"any">>

\* C15: nothing is raised; a document without a components section gives
\* no interfaces, one without a paths section gives no endpoints, and an
\* operation with none of tags, description, parameters, requestBody and
\* responses gives an endpoint with no url or query parameters and with
\* both body types unset.
C15_MissingSectionsAreEmpty ==
    /\ raised = 0
    /\ \A r \in DOMAIN returned : returned[r].first =>
          /\ schema.components = <<>> => returned[r].interfaces = <<>>
          /\ schema.paths = <<>> => returned[r].endpoints = <<>>
          /\ Len(returned[r].endpoints) = Len(KeptOperations)
          /\ \A k \in DOMAIN returned[r].endpoints :
                LET operation == KeptOperations[k].operation
                    e         == returned[r].endpoints[k]
                IN  /\ operation.tags = <<>> /\ operation.description = <<>>
                    /\ operation.parameters = <<>> /\ operation.requestBody = <<>>
                    /\ operation.responses = <<>>
                    => /\ e.url_params = <<>> /\ e.query_params = <<>>
                       /\ e.request_body_type = <<>> /\ e.response_body_type = <<>>

\* an IR of a document without components whose operation declares nothing,
\* with its endpoint
C15_Witness ==
    \E r \in DOMAIN returned :
        /\ returned[r].first
        /\ schema.components = <<>>
        /\ returned[r].interfaces = <<>>
        /\ \E k \in DOMAIN returned[r].endpoints :
              /\ KeptOperations[k].operation = EmptyOperation
              /\ returned[r].endpoints[k].request_body_type = <<>>
              /\ returned[r].endpoints[k].url_params = <<>>

\* the declared parameters of an operation with the given location, in
\* declaration order
DeclaredIn(operation, location) ==
    SelectSeq(Get(operation.parameters, <<>>), LAMBDA p : p.in = <<location>>)

NamesOf(params) == [i \in DOMAIN params |-> params[i].name]

\* the name of a declared query parameter with its optional mark
MarkedName(p) == IF p.required = <<TRUE>> THEN p.name ELSE p.name \o "?"

\* C16: url_params are the declared path parameters, in declaration order,
\* under their bare names; query_params are the declared query parameters,
\* in declaration order, with the optional mark exactly on those not marked
\* required; parameters in a header or cookie are in neither.
C16_ParameterClassification ==
    \A r \in DOMAIN returned : returned[r].first =>
        \A k \in DOMAIN returned[r].endpoints :
            LET operation == KeptOperations[k].operation
                e         == returned[r].endpoints[k]
                query     == DeclaredIn(operation, "query")
            IN  /\ NamesOf(e.url_params) = NamesOf(DeclaredIn(operation, "path"))
                /\ NamesOf(e.query_params) = [i \in DOMAIN query |-> MarkedName(query[i])]

\* an endpoint of an operation that declares a query parameter with
\* required false after one with required true
C16_Witness ==
    \E r \in DOMAIN returned : \E k \in DOMAIN returned[r].endpoints :
        /\ returned[r].first
        /\ Get(KeptOperations[k].operation.parameters, <<>>) =
               <<Param("q", "query", <<TRUE>>), Param("q", "query", <<FALSE>>)>>
        /\ NamesOf(returned[r].endpoints[k].query_params) = <<"q", "q?">>

\* C17: nothing is raised; every endpoint's method is one of GET, POST,
\* PUT, PATCH, DELETE; and the endpoints are, one each and in order, the
\* declared keys that are one of the five verbs in any letter case and
\* whose operation is not excluded.  The value under any other key is
\* never read.
C17_OnlySupportedVerbs ==
    /\ raised = 0
    /\ \A r \in DOMAIN returned : returned[r].first =>
          /\ \A k \in DOMAIN returned[r].endpoints :
                returned[r].endpoints[k].method \in UpperVerbs
          /\ PathMethod(returned[r].endpoints) =
                [k \in DOMAIN KeptOperations |->
                    <<KeptOperations[k].path, StrUpper(KeptOperations[k].method)>>]

\* an IR of a path item with a "parameters" list followed by "Put": one
\* endpoint, with method PUT
C17_Witness ==
    \E r \in DOMAIN returned :
        /\ returned[r].first
        /\ Len(Declared) = 2
        /\ Declared[1].method = KeyParameters
        /\ Declared[1].operation = [list |-> <<"id">>]
        /\ Declared[2].method = VerbPutMixed
        /\ PathMethod(returned[r].endpoints) = <<<<PathUsers, <<"P","U","T">>>>>>

\* the schema an operation declares for the JSON content of its request
\* body, as an option
RequestNode(operation) ==
    IF operation.requestBody = <<>> THEN <<>>
    ELSE IF operation.requestBody[1].content = <<>> THEN <<>>
    ELSE IF operation.requestBody[1].content[1].json = <<>> THEN <<>>
    ELSE operation.requestBody[1].content[1].json[1].schema

\* C18: request_body_type is the translated type of the request body's
\* JSON-content schema whenever the operation declares one, whatever the
\* schema contains, and is unset exactly when it declares none.
C18_RequestBodyType ==
    \A r \in DOMAIN returned : returned[r].first =>
        \A k \in DOMAIN returned[r].endpoints :
            LET node == RequestNode(KeptOperations[k].operation)
                e    == returned[r].endpoints[k]
            IN  /\ node # <<>> => e.request_body_type = <<TranslateType(node[1], hashseed)>>
                /\ node = <<>> => e.request_body_type = <<>>

\* C19: no call ends in an exception, and a response schema of type object
\* (and no reference) translates to the keyed map of the translated value
\* schema when additionalProperties holds a schema, and to "any" otherwise,
\* whatever properties or anyOf the node declares.
C19_ObjectRule ==
    /\ raised = 0
    /\ \A r \in DOMAIN returned : returned[r].first =>
          \A k \in DOMAIN returned[r].endpoints :
              LET node == ResponseNode(KeptOperations[k].operation)
                  e    == returned[r].endpoints[k]
              IN  node # <<>> /\ node[1].ref = <<>> /\ node[1].type = <<"object">> =>
                    IF /\ node[1].additionalProperties # <<>>
                       /\ IsDict(node[1].additionalProperties[1])
                    THEN e.response_body_type =
                           <<"{ [key: string]: "
                               \o TranslateType(node[1].additionalProperties[1], hashseed)
                               \o " }">>
                    ELSE e.response_body_type = <<"any">>

\* C20: every type expression in a returned IR is a non-empty string: the
\* type of every property and of every parameter, every request body type,
\* and every response body type that is set.
C20_TypeExpressionsNonEmpty ==
    \A r \in DOMAIN returned :
        /\ \A i \in DOMAIN returned[r].interfaces :
              \A j \in DOMAIN returned[r].interfaces[i].value.properties :
                  returned[r].interfaces[i].value.properties[j].value.ts_type # ""
        /\ \A k \in DOMAIN returned[r].endpoints :
              LET e == returned[r].endpoints[k]
              IN  /\ \A i \in DOMAIN e.url_params : e.url_params[i].type # ""
                  /\ \A i \in DOMAIN e.query_params : e.query_params[i].type # ""
                  /\ e.request_body_type # <<"">>
                  /\ e.response_body_type # <<"">>

====
